---- MODULE Spec2Model ----
(***************************************************************************)
(* Model of process_scene.py: a linear script that loads credentials,      *)
(* fetches an OAuth2 token, builds one Process-API request, POSTs it,      *)
(* decodes the returned raster, converts linear power to dB, masks invalid *)
(* pixels and renders two panels overlaid with a shapefile-derived patch.  *)
(*                                                                         *)
(* Linear power is represented in units of 1e-10 (so the additive epsilon  *)
(* of the dB conversion is 1 unit); dB values are represented by their     *)
(* floor in whole dB, which preserves every comparison with an integer     *)
(* threshold such as -22.                                                  *)
(***************************************************************************)
EXTENDS Integers, Sequences, FiniteSets, TLC

VARIABLES
    pc,               \* position of the script
    CLIENT_ID, CLIENT_SECRET,
    token,
    request_payload,
    sent,             \* requests put on the wire, in order
    response,
    image_bytes,
    src,              \* raster handle
    vv_band_linear, vh_band_linear, datamask,
    vv_band_db, vh_band_db,
    vv_invalid_mask, vh_invalid_mask,
    vv_display, vh_display,
    shp_utm,
    axi,              \* index of the panel the axes loop is at
    compound_coords, compound_codes,
    patches,          \* patches added to the panels, in order
    log,              \* printed diagnostics
    error,            \* the uncaught exception that ended the run, if any
    trace             \* stages executed, in order

vars == <<pc, CLIENT_ID, CLIENT_SECRET, token, request_payload, sent, response,
          image_bytes, src, vv_band_linear, vh_band_linear, datamask,
          vv_band_db, vh_band_db, vv_invalid_mask, vh_invalid_mask,
          vv_display, vh_display, shp_utm, axi, compound_coords,
          compound_codes, patches, log, error, trace>>

----------------------------------------------------------------------------
(* Bounds of the model *)

\* number of pixels of the rasters the provider may return
MaxPix == 2

\* largest number of coordinates of a geometry of the shapefile
MaxCoords == 5

----------------------------------------------------------------------------
(* Values *)

\* Python's None for string-valued names (environment values, the token)
NoneStr == "None"

\* os.environ.get: absent, empty, or set
EnvValues == {NoneStr, "", "set"}

\* the bytes objects the script handles; kind "None" is Python's None
None == [kind |-> "None", len |-> 0, count |-> 0,
         vv |-> <<>>, vh |-> <<>>, dm |-> <<>>]

EmptyBody == [kind |-> "bytes", len |-> 0, count |-> 0,
              vv |-> <<>>, vh |-> <<>>, dm |-> <<>>]

\* a non-empty body that is not a raster (an error document)
ErrorBody == [kind |-> "bytes", len |-> 1, count |-> 0,
              vv |-> <<>>, vh |-> <<>>, dm |-> <<>>]

\* linear power values of a band, in units of 1e-10: zero, and the two values
\* on either side of the -22 dB threshold (-23 dB and -22 dB after flooring)
LinVals == {0, 63095733, 63095734}

\* values of the data-validity band
MaskVals == {0, 1}

\* well-formed rasters with the three bands the script reads
ThreeBandTiffs ==
    {[kind |-> "bytes", len |-> 8, count |-> 3, vv |-> v, vh |-> h, dm |-> m] :
        v \in [1..MaxPix -> LinVals], h \in [1..MaxPix -> LinVals],
        m \in [1..MaxPix -> MaskVals]}

\* a well-formed raster that lacks the third band
TwoBandTiff == [kind |-> "bytes", len |-> 8, count |-> 2,
                vv |-> [i \in 1..MaxPix |-> 0], vh |-> [i \in 1..MaxPix |-> 0],
                dm |-> <<>>]

NoResponse == [status |-> 0, content |-> None]

\* IEEE values that are not finite
NaN == 999999
NegInf == -999999

IsFinite(v) == v # NaN /\ v # NegInf

\* a < b on floats: false when either side is NaN
Lt(a, b) == a # NaN /\ b # NaN /\ a < b

Range(s) == {s[i] : i \in DOMAIN s}

----------------------------------------------------------------------------
(* Step 1: credentials *)

\* Python's `not x` on an environment value
Missing(x) == x = NoneStr \/ x = ""

\* faulty variant: the credential check stops the run when a value is missing
CredCheckNextFatal(id, secret) ==
    IF Missing(id) \/ Missing(secret) THEN "exited" ELSE "token"

\* where the script goes after the credential check: both branches of the
\* if only print, so step 2 follows in either case
CredCheckNext(id, secret) ==
    IF Missing(id) \/ Missing(secret) THEN "token" ELSE "token"

CredMessage(id, secret) ==
    IF Missing(id) \/ Missing(secret)
    THEN <<"FATAL: CLIENT_ID or CLIENT_SECRET not found.", 0>>
    ELSE <<"Credentials successfully loaded from .env file.", 0>>

LoadCredentials ==
    /\ pc = "cred"
    /\ log' = log \o << CredMessage(CLIENT_ID, CLIENT_SECRET),
                        <<"Configuration loaded and ready.", 0>> >>
    /\ trace' = Append(trace, "cred")
    /\ pc' = CredCheckNext(CLIENT_ID, CLIENT_SECRET)
    /\ UNCHANGED <<CLIENT_ID, CLIENT_SECRET, token, request_payload, sent,
                   response, image_bytes, src, vv_band_linear, vh_band_linear,
                   datamask, vv_band_db, vh_band_db, vv_invalid_mask,
                   vh_invalid_mask, vv_display, vh_display, shp_utm, axi,
                   compound_coords, compound_codes, patches, error>>

----------------------------------------------------------------------------
(* Step 2: token exchange *)

\* what oauth.fetch_token can do: return a token, or raise; the identity
\* provider never issues a token for absent or empty credentials
TokenOutcomes(id, secret) ==
    IF Missing(id) \/ Missing(secret) THEN {"raise"} ELSE {"token", "raise"}

\* faulty variant: a failed token exchange ends the run
AfterTokenFailureFatal == "exited"

\* faulty variant: a failed token exchange is tried again
AfterTokenFailureRetry == "token"

\* the except clause only prints; step 3 follows
AfterTokenFailure == "build"

FetchToken ==
    /\ pc = "token"
    /\ sent' = Append(sent, [to |-> "token", client_id |-> CLIENT_ID,
                             client_secret |-> CLIENT_SECRET,
                             bearer |-> NoneStr])
    /\ trace' = Append(trace, "token")
    /\ \E o \in TokenOutcomes(CLIENT_ID, CLIENT_SECRET) :
         IF o = "token"
         THEN /\ token' = "tok"
              /\ log' = Append(log, <<"Authentication successful. Token obtained.", 0>>)
              /\ pc' = "build"
         ELSE /\ token' = token
              /\ log' = Append(log, <<"Authentication failed", 0>>)
              /\ pc' = AfterTokenFailure
    /\ UNCHANGED <<CLIENT_ID, CLIENT_SECRET, request_payload, response,
                   image_bytes, src, vv_band_linear, vh_band_linear, datamask,
                   vv_band_db, vh_band_db, vv_invalid_mask, vh_invalid_mask,
                   vv_display, vh_display, shp_utm, axi, compound_coords,
                   compound_codes, patches, error>>

----------------------------------------------------------------------------
(* Step 3: request payload *)

BuildRequest ==
    /\ pc = "build"
    /\ request_payload' = "sentinel-1-grd"
    /\ log' = log \o << <<"Request payload defined.", 0>>,
                        <<"Requesting data for BBox", 0>> >>
    /\ trace' = Append(trace, "build")
    /\ pc' = "post"
    /\ UNCHANGED <<CLIENT_ID, CLIENT_SECRET, token, sent, response,
                   image_bytes, src, vv_band_linear, vh_band_linear, datamask,
                   vv_band_db, vh_band_db, vv_invalid_mask, vh_invalid_mask,
                   vv_display, vh_display, shp_utm, axi, compound_coords,
                   compound_codes, patches, error>>

----------------------------------------------------------------------------
(* Step 4: the Process-API request *)

\* bodies that may come with an error status (no body contract)
ErrorBodies == {EmptyBody, ErrorBody}

\* what the provider answers: it rejects a request without a bearer token;
\* with a token it answers 200 with some body, or an error status
ProviderResponses(bearer) ==
    IF bearer = NoneStr
    THEN {[status |-> 401, content |-> b] : b \in ErrorBodies}
    ELSE {[status |-> 200, content |-> b] :
              b \in ErrorBodies \cup ThreeBandTiffs \cup {TwoBandTiff}}
         \cup {[status |-> 403, content |-> b] : b \in ErrorBodies}

\* faulty variant: the body is kept whatever the status
KeptBytesAnyStatus(status, content) == content

\* image_bytes after the status check
KeptBytes(status, content) == IF status = 200 THEN content ELSE None

FetchMessage(status, content) ==
    IF status = 200
    THEN <<"Successfully received image data", content.len>>
    ELSE <<"Request failed", status>>

SendRequest ==
    /\ pc = "post"
    /\ sent' = Append(sent, [to |-> "process", client_id |-> NoneStr,
                             client_secret |-> NoneStr, bearer |-> token])
    /\ trace' = Append(trace, "post")
    /\ \E r \in ProviderResponses(token) :
         /\ response' = r
         /\ image_bytes' = KeptBytes(r.status, r.content)
         /\ log' = Append(log, FetchMessage(r.status, r.content))
    /\ pc' = "decode"
    /\ UNCHANGED <<CLIENT_ID, CLIENT_SECRET, token, request_payload, src,
                   vv_band_linear, vh_band_linear, datamask, vv_band_db,
                   vh_band_db, vv_invalid_mask, vh_invalid_mask, vv_display,
                   vh_display, shp_utm, axi, compound_coords, compound_codes,
                   patches, error>>

----------------------------------------------------------------------------
(* Step 5: decode *)

\* faulty variant: only None counts as "no image"
FalsyNoneOnly(b) == b.kind = "None"

\* Python's `not image_bytes`: None and the empty bytes object are both falsy
Falsy(b) == b.kind = "None" \/ b.len = 0

\* whether rasterio.open accepts the buffer
IsRaster(b) == b.kind = "bytes" /\ b.count > 0

NoHandle == [state |-> "unset", count |-> 0,
             vv |-> <<>>, vh |-> <<>>, dm |-> <<>>]

OpenRaster ==
    /\ pc = "decode"
    /\ IF Falsy(image_bytes)
       THEN /\ log' = Append(log, <<"No image data available for visualization.", 0>>)
            /\ pc' = "exited"
            /\ UNCHANGED <<src, error, trace>>
       ELSE /\ trace' = Append(trace, "decode")
            /\ IF IsRaster(image_bytes)
               THEN /\ src' = [state |-> "open", count |-> image_bytes.count,
                               vv |-> image_bytes.vv, vh |-> image_bytes.vh,
                               dm |-> image_bytes.dm]
                    /\ log' = log \o << <<"Opened image with bands", image_bytes.count>>,
                                        <<"CRS", 0>> >>
                    /\ pc' = "read"
                    /\ error' = error
               ELSE /\ pc' = "crashed"
                    /\ error' = "RasterioIOError"
                    /\ UNCHANGED <<src, log>>
    /\ UNCHANGED <<CLIENT_ID, CLIENT_SECRET, token, request_payload, sent,
                   response, image_bytes, vv_band_linear, vh_band_linear,
                   datamask, vv_band_db, vh_band_db, vv_invalid_mask,
                   vh_invalid_mask, vv_display, vh_display, shp_utm, axi,
                   compound_coords, compound_codes, patches>>

\* src.read(1), src.read(2), src.read(3): a band index beyond src.count raises
ReadBands ==
    /\ pc = "read"
    /\ vv_band_linear' = IF src.count >= 1 THEN src.vv ELSE vv_band_linear
    /\ vh_band_linear' = IF src.count >= 2 THEN src.vh ELSE vh_band_linear
    /\ datamask' = IF src.count >= 3 THEN src.dm ELSE datamask
    /\ IF src.count >= 3
       THEN pc' = "bandmath" /\ error' = error
       ELSE pc' = "crashed" /\ error' = "IndexError"
    /\ UNCHANGED <<CLIENT_ID, CLIENT_SECRET, token, request_payload, sent,
                   response, image_bytes, src, vv_band_db, vh_band_db,
                   vv_invalid_mask, vh_invalid_mask, vv_display, vh_display,
                   shp_utm, axi, compound_coords, compound_codes, patches,
                   log, trace>>

----------------------------------------------------------------------------
(* Band math *)

\* the additive constant 1e-10, in units of 1e-10
Eps == 1

\* the noise threshold in dB
NoiseFloor == -22

\* Pow10Tenth[j] is the least integer n with 10*log10(n) >= j
Pow10Tenth ==
    << 2, 2, 2, 3, 4, 4, 6, 7, 8, 10,
       13, 16, 20, 26, 32, 40, 51, 64, 80, 100,
       126, 159, 200, 252, 317, 399, 502, 631, 795, 1000,
       1259, 1585, 1996, 2512, 3163, 3982, 5012, 6310, 7944, 10000,
       12590, 15849, 19953, 25119, 31623, 39811, 50119, 63096, 79433, 100000,
       125893, 158490, 199527, 251189, 316228, 398108, 501188, 630958, 794329, 1000000,
       1258926, 1584894, 1995263, 2511887, 3162278, 3981072, 5011873, 6309574, 7943283, 10000000,
       12589255, 15848932, 19952624, 25118865, 31622777, 39810718, 50118724, 63095735, 79432824, 100000000,
       125892542, 158489320, 199526232, 251188644, 316227767, 398107171, 501187234, 630957345, 794328235, 1000000000,
       1258925412, 1584893193, 1995262315 >>

\* floor(10 * log10(n)) for a value n in units of 1e-10, re-based to units
\* of 1 (10*log10(1e-10) = -100); np.log10 gives -inf at 0 and NaN below 0
TenLog10(n) ==
    IF n < 0 THEN NaN
    ELSE IF n = 0 THEN NegInf
    ELSE Cardinality({j \in DOMAIN Pow10Tenth : Pow10Tenth[j] <= n}) - 100

\* faulty variant: the conversion without the additive constant
dBNoEps(x) == TenLog10(x)

\* 10 * np.log10(x + 1e-10)
dB(x) == TenLog10(x + Eps)

\* faulty variant: the threshold counted as noise
InvalidMaskLe(m, d) == (m = 0) \/ Lt(d, NoiseFloor + 1)

\* nodata_mask | noise_mask for one pixel
InvalidMask(m, d) == (m = 0) \/ Lt(d, NoiseFloor)

BandMath ==
    /\ pc = "bandmath"
    /\ vv_band_db' = [i \in DOMAIN vv_band_linear |-> dB(vv_band_linear[i])]
    /\ vh_band_db' = [i \in DOMAIN vh_band_linear |-> dB(vh_band_linear[i])]
    /\ vv_invalid_mask' =
           [i \in DOMAIN datamask |-> InvalidMask(datamask[i], vv_band_db'[i])]
    /\ vh_invalid_mask' =
           [i \in DOMAIN datamask |-> InvalidMask(datamask[i], vh_band_db'[i])]
    /\ pc' = "display"
    /\ UNCHANGED <<CLIENT_ID, CLIENT_SECRET, token, request_payload, sent,
                   response, image_bytes, src, vv_band_linear, vh_band_linear,
                   datamask, vv_display, vh_display, shp_utm, axi,
                   compound_coords, compound_codes, patches, log, error,
                   trace>>

----------------------------------------------------------------------------
(* Display arrays *)

\* arr[mask] = np.nan
MaskedAssign(arr, mask) ==
    [i \in DOMAIN arr |-> IF mask[i] THEN NaN ELSE arr[i]]

\* faulty variant: the display array is the dB array itself, not a copy, so the
\* substitution writes through
SourceAfterMaskingAliased(arr, mask) == MaskedAssign(arr, mask)

\* the dB array after `display = arr.copy(); display[mask] = np.nan`:
\* the copy owns its data, so the source array keeps its values
SourceAfterMasking(arr, mask) == arr

PrepareDisplay ==
    /\ pc = "display"
    /\ vv_display' = MaskedAssign(vv_band_db, vv_invalid_mask)
    /\ vh_display' = MaskedAssign(vh_band_db, vh_invalid_mask)
    /\ vv_band_db' = SourceAfterMasking(vv_band_db, vv_invalid_mask)
    /\ vh_band_db' = SourceAfterMasking(vh_band_db, vh_invalid_mask)
    /\ trace' = Append(trace, "render")
    /\ pc' = "shp"
    /\ UNCHANGED <<CLIENT_ID, CLIENT_SECRET, token, request_payload, sent,
                   response, image_bytes, src, vv_band_linear, vh_band_linear,
                   datamask, vv_invalid_mask, vh_invalid_mask, shp_utm, axi,
                   compound_coords, compound_codes, patches, log, error>>

----------------------------------------------------------------------------
(* Shapefile *)

\* a polygon whose exterior ring has n coordinates, the last repeating the
\* first
Polygon(id, n) ==
    [geom_type |-> "Polygon",
     coords |-> [i \in 1..n |-> IF i = n THEN <<10 * id + 1, id>>
                                         ELSE <<10 * id + i, id>>]]

LineString(id, n) ==
    [geom_type |-> "LineString", coords |-> [i \in 1..n |-> <<10 * id + i, id>>]]

Point(id) == [geom_type |-> "Point", coords |-> << <<10 * id + 1, id>> >>]

EmptyPolygon == [geom_type |-> "Polygon", coords |-> <<>>]

\* a multi-part geometry has no coordinate sequence of its own
MultiPolygon == [geom_type |-> "MultiPolygon", coords |-> <<>>]

\* the geometry columns a shapefile may hold
Shapefiles ==
    { <<>>, <<Point(1)>>, <<EmptyPolygon>>, <<MultiPolygon>>,
      <<Polygon(1, 4), Polygon(2, 4)>>, <<Polygon(1, 4), Point(2)>> }
    \cup {<<Polygon(1, n)>> : n \in 4..MaxCoords}
    \cup {<<LineString(1, n)>> : n \in 2..MaxCoords}

NoShapefile == << [geom_type |-> "unset", coords |-> <<>>] >>

\* gpd.read_file / set_crs / to_crs: raises when the file cannot be read
LoadShapefile ==
    /\ pc = "shp"
    /\ \/ /\ \E s \in Shapefiles : shp_utm' = s
          /\ pc' = "axes"
          /\ axi' = 1
          /\ error' = error
       \/ /\ pc' = "crashed"
          /\ error' = "DataSourceError"
          /\ UNCHANGED <<shp_utm, axi>>
    /\ UNCHANGED <<CLIENT_ID, CLIENT_SECRET, token, request_payload, sent,
                   response, image_bytes, src, vv_band_linear, vh_band_linear,
                   datamask, vv_band_db, vh_band_db, vv_invalid_mask,
                   vh_invalid_mask, vv_display, vh_display, compound_coords,
                   compound_codes, patches, log, trace>>

----------------------------------------------------------------------------
(* Axes loop: the masking patch *)

\* the number of panels of plt.subplots(1, 2)
NumAxes == 2

\* imshow's extent: the limits of both panels
Bounds == [left |-> 0, right |-> 9, bottom |-> 0, top |-> 9]

OuterCoords ==
    << <<Bounds.left, Bounds.bottom>>, <<Bounds.right, Bounds.bottom>>,
       <<Bounds.right, Bounds.top>>, <<Bounds.left, Bounds.top>>,
       <<Bounds.left, Bounds.bottom>> >>

OuterCodes == <<"MOVETO", "LINETO", "LINETO", "LINETO", "CLOSEPOLY">>

\* Python's [x] * n: empty when n <= 0
Repeat(x, n) == [i \in 1..(IF n > 0 THEN n ELSE 0) |-> x]

\* [MOVETO] + [LINETO] * (len - 2) + [CLOSEPOLY]
InnerCodes(n) == <<"MOVETO">> \o Repeat("LINETO", n - 2) \o <<"CLOSEPOLY">>

\* whether geom.exterior.coords / geom.coords raises
CoordsRaise(geom) == geom.geom_type \notin {"Polygon", "LineString", "Point"}

\* Path(vertices, codes) rejects code lists of another length
PathRaises(vertices, codes) == Len(codes) # Len(vertices)

FormatAxes ==
    /\ pc = "axes"
    /\ IF Len(shp_utm) = 0
       THEN /\ pc' = "crashed"
            /\ error' = "IndexError"
            /\ UNCHANGED <<compound_coords, compound_codes, patches, axi>>
       ELSE LET geom == shp_utm[1] IN
            IF CoordsRaise(geom)
            THEN /\ pc' = "crashed"
                 /\ error' = "NotImplementedError"
                 /\ UNCHANGED <<compound_coords, compound_codes, patches, axi>>
            ELSE LET inner_coords == geom.coords
                     inner_codes == InnerCodes(Len(inner_coords))
                 IN  /\ compound_coords' = OuterCoords \o inner_coords
                     /\ compound_codes' = OuterCodes \o inner_codes
                     /\ IF PathRaises(compound_coords', compound_codes')
                        THEN /\ pc' = "crashed"
                             /\ error' = "ValueError"
                             /\ UNCHANGED <<patches, axi>>
                        ELSE /\ patches' = Append(patches,
                                     [vertices |-> compound_coords',
                                      codes |-> compound_codes'])
                             /\ axi' = axi + 1
                             /\ pc' = IF axi = NumAxes THEN "show" ELSE "axes"
                             /\ error' = error
    /\ UNCHANGED <<CLIENT_ID, CLIENT_SECRET, token, request_payload, sent,
                   response, image_bytes, src, vv_band_linear, vh_band_linear,
                   datamask, vv_band_db, vh_band_db, vv_invalid_mask,
                   vh_invalid_mask, vv_display, vh_display, shp_utm, log,
                   trace>>

----------------------------------------------------------------------------
(* Legend, show, close *)

\* plt.show() may raise (no usable backend); src.close() runs only after it
\* returns
ShowAndClose ==
    /\ pc = "show"
    /\ \/ /\ src' = [src EXCEPT !.state = "closed"]
          /\ pc' = "done"
          /\ error' = error
       \/ /\ pc' = "crashed"
          /\ error' = "BackendError"
          /\ src' = src
    /\ UNCHANGED <<CLIENT_ID, CLIENT_SECRET, token, request_payload, sent,
                   response, image_bytes, vv_band_linear, vh_band_linear,
                   datamask, vv_band_db, vh_band_db, vv_invalid_mask,
                   vh_invalid_mask, vv_display, vh_display, shp_utm, axi,
                   compound_coords, compound_codes, patches, log, trace>>

----------------------------------------------------------------------------
(* The script *)

Init ==
    /\ pc = "cred"
    /\ CLIENT_ID \in EnvValues
    /\ CLIENT_SECRET \in EnvValues
    /\ token = NoneStr
    /\ request_payload = "unset"
    /\ sent = <<>>
    /\ response = NoResponse
    /\ image_bytes = None
    /\ src = NoHandle
    /\ vv_band_linear = <<>>
    /\ vh_band_linear = <<>>
    /\ datamask = <<>>
    /\ vv_band_db = <<>>
    /\ vh_band_db = <<>>
    /\ vv_invalid_mask = <<>>
    /\ vh_invalid_mask = <<>>
    /\ vv_display = <<>>
    /\ vh_display = <<>>
    /\ shp_utm = NoShapefile
    /\ axi = 0
    /\ compound_coords = <<>>
    /\ compound_codes = <<>>
    /\ patches = <<>>
    /\ log = <<>>
    /\ error = ""
    /\ trace = <<>>

Next ==
    \/ LoadCredentials
    \/ FetchToken
    \/ BuildRequest
    \/ SendRequest
    \/ OpenRaster
    \/ ReadBands
    \/ BandMath
    \/ PrepareDisplay
    \/ LoadShapefile
    \/ FormatAxes
    \/ ShowAndClose

Spec == Init /\ [][Next]_vars

Terminal == {"done", "exited", "crashed"}

----------------------------------------------------------------------------
(* Properties *)

NoImageMessage == <<"No image data available for visualization.", 0>>

TokenFailedMessage == <<"Authentication failed", 0>>

\* the requests of one kind put on the wire
SentTo(kind) == {i \in DOMAIN sent : sent[i].to = kind}

\* C1: after a Process-API response whose status is not 200, the status is
\* logged, no image bytes are kept, and the run can only be at the step-5
\* guard or have exited there: no raster handle, no band, no shapefile, no
\* display array or patch exists, and no exception has been raised.
C1_NonOkHalts ==
    (response.status # 0 /\ response.status # 200) =>
        /\ <<"Request failed", response.status>> \in Range(log)
        /\ image_bytes = None
        /\ pc \in {"decode", "exited"}
        /\ error = ""
        /\ src = NoHandle
        /\ vv_band_linear = <<>> /\ vh_band_linear = <<>> /\ datamask = <<>>
        /\ vv_display = <<>> /\ vh_display = <<>>
        /\ shp_utm = NoShapefile
        /\ patches = <<>>
        /\ "decode" \notin Range(trace) /\ "render" \notin Range(trace)
        /\ (pc = "exited" => log[Len(log)] = NoImageMessage)

C1_Witness ==
    /\ token # NoneStr
    /\ response = [status |-> 403, content |-> ErrorBody]
    /\ pc = "exited"

\* C2 as stated: every response with status 200, whatever its body, has its
\* bytes kept as the image and the run does not exit with "No image data
\* available".
C2_Every200Proceeds ==
    response.status = 200 =>
        /\ image_bytes = response.content
        /\ pc # "exited"
        /\ NoImageMessage \notin Range(log)

\* C2 as amended: every response with status 200 is taken as success by the
\* fetch step and its bytes are kept; past the step-5 guard the run has gone
\* on to the raster decode exactly when the body is non-empty, and a 200 with
\* an empty body has exited with "No image data available".
C2_Status200Kept ==
    response.status = 200 =>
        /\ image_bytes = response.content
        /\ <<"Successfully received image data", response.content.len>> \in Range(log)
        /\ pc # "decode" =>
             IF response.content.len = 0
             THEN /\ pc = "exited"
                  /\ log[Len(log)] = NoImageMessage
                  /\ "decode" \notin Range(trace)
                  /\ src = NoHandle
             ELSE /\ pc # "exited"
                  /\ NoImageMessage \notin Range(log)
                  /\ "decode" \in Range(trace)

C2_Witness ==
    /\ response.status = 200
    /\ response.content.len > 0
    /\ image_bytes = response.content
    /\ pc = "read"
    /\ src.state = "open"

\* C3: once the masks are built, a pixel is in a polarization's invalid mask
\* iff its mask band is 0 or that polarization's dB value is below -22.
C3_InvalidMask ==
    (vv_invalid_mask # <<>> \/ vh_invalid_mask # <<>>) =>
        /\ DOMAIN vv_invalid_mask = DOMAIN datamask
        /\ DOMAIN vh_invalid_mask = DOMAIN datamask
        /\ \A i \in DOMAIN datamask :
             /\ vv_invalid_mask[i] <=>
                    (datamask[i] = 0 \/ (vv_band_db[i] # NaN /\ vv_band_db[i] < -22))
             /\ vh_invalid_mask[i] <=>
                    (datamask[i] = 0 \/ (vh_band_db[i] # NaN /\ vh_band_db[i] < -22))

C3_Witness ==
    /\ vv_invalid_mask # <<>>
    /\ \E i, j \in DOMAIN datamask :
         /\ datamask[i] = 0 /\ vv_band_db[i] >= -22 /\ vh_band_db[i] >= -22
         /\ vv_invalid_mask[i] /\ vh_invalid_mask[i]
         /\ datamask[j] # 0 /\ vv_band_db[j] = -22 /\ ~vv_invalid_mask[j]
         /\ vh_band_db[j] < -22 /\ vh_invalid_mask[j]

C5_MissingCredentialsContinue ==
    ((Missing(CLIENT_ID) \/ Missing(CLIENT_SECRET)) /\ pc # "cred") =>
        /\ <<"FATAL: CLIENT_ID or CLIENT_SECRET not found.", 0>> \in Range(log)
        /\ pc \in {"token", "build", "post", "decode", "exited"}
        /\ pc # "token" =>
             /\ Len(sent) >= 1
             /\ sent[1].to = "token"
             /\ sent[1].client_id = CLIENT_ID
             /\ sent[1].client_secret = CLIENT_SECRET
        /\ pc = "exited" =>
             /\ SentTo("process") # {}
             /\ log[Len(log)] = NoImageMessage
             /\ src = NoHandle

C5_Witness ==
    /\ CLIENT_ID = NoneStr
    /\ CLIENT_SECRET = "set"
    /\ Len(sent) = 2
    /\ pc = "exited"

StageOrder == <<"cred", "token", "build", "post", "decode", "render">>

\* the position of each stage in the fixed order
StageRank ==
    [s \in Range(StageOrder) |-> CHOOSE k \in DOMAIN StageOrder : StageOrder[k] = s]

\* C6: the stages executed so far are in the fixed order, none twice, and at
\* most one token request and one Process-API request have been sent.
C6_StagesOnceInOrder ==
    /\ \A i, j \in DOMAIN trace :
         i < j => StageRank[trace[i]] < StageRank[trace[j]]
    /\ Cardinality(SentTo("token")) <= 1
    /\ Cardinality(SentTo("process")) <= 1
    /\ Len(sent) = Cardinality(SentTo("token")) + Cardinality(SentTo("process"))

C6_Witness ==
    /\ pc = "done"
    /\ trace = StageOrder
    /\ Len(sent) = 2

\* C7: a run that opened the raster handle has closed it when it ends.
C7_HandleClosedAtEnd ==
    (pc \in Terminal /\ src.state # "unset") => src.state = "closed"

\* the dB samples computed so far, each with the linear value it came from
Samples ==
    {<<vv_band_linear[i], vv_band_db[i]>> : i \in DOMAIN vv_band_db}
    \cup {<<vh_band_linear[i], vh_band_db[i]>> : i \in DOMAIN vh_band_db}

\* C8: every computed dB value is finite, in particular the one of linear
\* power 0, and of two linear powers the larger never has the smaller dB.
C8_dBFiniteMonotone ==
    \A a, b \in Samples :
        /\ a[1] >= 0 => IsFinite(a[2])
        /\ a[1] <= b[1] => a[2] <= b[2]

C8_Witness ==
    \E a, b \in Samples :
        /\ a[1] = 0 /\ a[2] = -100
        /\ b[1] > 0 /\ b[2] > a[2]

\* the dB value of each linear power a band may hold
Converted == [x \in LinVals |-> dB(x)]

\* C9: once the display arrays are built, a displayed value is NaN iff the
\* pixel is in that polarization's invalid mask and is the dB value
\* otherwise, and the dB arrays still hold the converted values.
C9_DisplayNaNIffInvalid ==
    (vv_display # <<>> \/ vh_display # <<>>) =>
        \A i \in DOMAIN datamask :
            /\ vv_display[i] = NaN <=> vv_invalid_mask[i]
            /\ vh_display[i] = NaN <=> vh_invalid_mask[i]
            /\ ~vv_invalid_mask[i] => vv_display[i] = vv_band_db[i]
            /\ ~vh_invalid_mask[i] => vh_display[i] = vh_band_db[i]
            /\ vv_band_db[i] = Converted[vv_band_linear[i]]
            /\ vh_band_db[i] = Converted[vh_band_linear[i]]

C9_Witness ==
    /\ vv_display # <<>>
    /\ \E i \in DOMAIN datamask :
         /\ datamask[i] # 0
         /\ vv_band_db[i] >= -22 /\ vh_band_db[i] < -22
         /\ vv_display[i] = vv_band_db[i]
         /\ vh_display[i] = NaN

Count(codes, c) == Cardinality({i \in DOMAIN codes : codes[i] = c})

\* C10: whenever the compound path arrays have been built for a panel, they
\* are the 5-vertex rectangle followed by the ring of the first geometry
\* only, the code list is as long as the vertex list, and there are exactly
\* two subpaths, each starting with MOVETO and ending with CLOSEPOLY.
C10_CompoundPathWellFormed ==
    compound_codes # <<>> =>
        /\ compound_coords = OuterCoords \o shp_utm[1].coords
        /\ Len(compound_codes) = Len(compound_coords)
        /\ compound_codes[1] = "MOVETO" /\ compound_codes[5] = "CLOSEPOLY"
        /\ compound_codes[6] = "MOVETO"
        /\ compound_codes[Len(compound_codes)] = "CLOSEPOLY"
        /\ Count(compound_codes, "MOVETO") = 2
        /\ Count(compound_codes, "CLOSEPOLY") = 2

====
